---- MODULE Spec2Model ----
(***************************************************************************)
(* Model of revault_net: the Noise KK handshake and channel wrapper        *)
(* (src/src/noise.rs) and the TCP transport that drives them               *)
(* (src/src/transport.rs).                                                 *)
(*                                                                         *)
(* The cryptographic engine (snow) is outside the repository.  It is       *)
(* modelled symbolically: a ciphertext is a record naming the key and the  *)
(* nonce it was produced under and the payload it carries, and it opens    *)
(* only under exactly that key and nonce.  Byte strings are sequences of   *)
(* segments, a segment being a run of bytes of one such object, so that    *)
(* lengths up to 65535 are exact without enumerating bytes.                *)
(***************************************************************************)
EXTENDS Integers, Sequences, FiniteSets, TLC

\* ------------------------------------------------------------ constants
KEY_SIZE == 32
MAC_SIZE == 16
NOISE_MESSAGE_MAX_SIZE == 65535
LENGTH_PREFIX_SIZE == 2
NOISE_MESSAGE_HEADER_SIZE == LENGTH_PREFIX_SIZE + MAC_SIZE
\* Variant: the MAC of the body is not counted
NOISE_PLAINTEXT_MAX_SIZE_NoBodyMac ==
    NOISE_MESSAGE_MAX_SIZE - NOISE_MESSAGE_HEADER_SIZE
NOISE_PLAINTEXT_MAX_SIZE ==
    NOISE_MESSAGE_MAX_SIZE - NOISE_MESSAGE_HEADER_SIZE - MAC_SIZE
\* b"practical_revault_0", byte by byte
HANDSHAKE_MESSAGE ==
    << 112, 114, 97, 99, 116, 105, 99, 97, 108, 95,
       114, 101, 118, 97, 117, 108, 116, 95, 48 >>
\* Variant: the tag counted as 20 bytes
KK_MSG_1_SIZE_Tag20 == KEY_SIZE + (Len(HANDSHAKE_MESSAGE) + 1) + MAC_SIZE
KK_MSG_1_SIZE == KEY_SIZE + Len(HANDSHAKE_MESSAGE) + MAC_SIZE
KK_MSG_2_SIZE == KEY_SIZE + MAC_SIZE
\* u16::MAX, the range of the length prefix
U16_MAX == 65535

\* ------------------------------------------------------------ bounds
\* successful encrypt_message calls, both sides together, in the channel
\* specification
MaxMsgs == 2
\* longest candidate list handed to the responder
MaxCands == 2
\* largest plaintext length of the exhaustive length specification
MaxProbeLen == 65540
\* decrypt calls out of order followed in the channel specification
MaxStray == 1
\* stream operations that end with an error after moving some bytes
MaxPartial == 1
\* write and read calls started, both sides together, in the transport
\* specification
MaxCalls == 2
\* loop iterations of read followed before the model stops following them
MaxLoops == 7
\* write and read calls started in a run of the stream specification
MaxStreamCalls == 3

\* ------------------------------------------------------------ results
NoVal == [none |-> TRUE]
\* An optional value; only the flag of a None is ever read
None == [some |-> FALSE]
Some(v) == [some |-> TRUE, v |-> v]
Ok(v) == [ok |-> TRUE, val |-> v, err |-> "none"]
Err(e) == [ok |-> FALSE, val |-> NoVal, err |-> e]

\* ------------------------------------------------------------ byte strings
\* A plaintext: `len` bytes of content `id` followed by `pad` zero bytes.
\* `be` holds the bytes themselves when there are two of them, the size of
\* a length prefix: a two-byte plaintext encrypts to as many bytes as a
\* header does.  A plaintext of two bytes is its bytes and nothing more: the
\* name the caller gives it is not part of the value, so that the bytes
\* 0, 18 are one value whether a caller wrote them or encrypt_message made
\* them as a length prefix.  Plaintexts of other lengths are told apart by
\* `id`, which stands for their bytes.
TwoBytes == << 0, 18 >>
\* A plaintext of two bytes, b
DataBytes(id, b) ==
    [id |-> "bytes", len |-> LENGTH_PREFIX_SIZE, pad |-> 0, be |-> b]
Data(id, len) ==
    IF len = LENGTH_PREFIX_SIZE THEN DataBytes(id, TwoBytes)
    ELSE [id |-> id, len |-> len, pad |-> 0, be |-> << >>]
NoData == Data("empty", 0)
DataLen(d) == d.len + d.pad

\* Vec::truncate(n) on a plaintext buffer
Truncate(d, n) ==
    IF n >= DataLen(d) THEN d
    ELSE IF n >= d.len THEN [d EXCEPT !.pad = n - d.len]
    ELSE [d EXCEPT !.len = n, !.pad = 0]

\* One run of bytes of object c: bytes off .. off+n-1
Seg(c, off, n) == [c |-> c, off |-> off, n |-> n]
Whole(c) == IF c.len = 0 THEN << >> ELSE << Seg(c, 0, c.len) >>
\* n bytes that are no output of any engine (zeroes, ones, ...)
Junk(fill, n) == [kind |-> "junk", fill |-> fill, len |-> n]

RECURSIVE BLen(_)
BLen(bs) == IF bs = << >> THEN 0 ELSE Head(bs).n + BLen(Tail(bs))

RECURSIVE Take(_, _)
Take(bs, k) ==
    IF k <= 0 \/ bs = << >> THEN << >>
    ELSE IF Head(bs).n <= k THEN << Head(bs) >> \o Take(Tail(bs), k - Head(bs).n)
    ELSE << Seg(Head(bs).c, Head(bs).off, k) >>

RECURSIVE Drop(_, _)
Drop(bs, k) ==
    IF k <= 0 \/ bs = << >> THEN bs
    ELSE IF Head(bs).n <= k THEN Drop(Tail(bs), k - Head(bs).n)
    ELSE << Seg(Head(bs).c, Head(bs).off + k, Head(bs).n - k) >> \o Tail(bs)

\* Concatenation; two runs that continue each other are one run
Concat(a, b) ==
    IF a = << >> THEN b
    ELSE IF b = << >> THEN a
    ELSE LET x == a[Len(a)]
             y == Head(b)
         IN IF x.c = y.c /\ x.off + x.n = y.off
            THEN SubSeq(a, 1, Len(a) - 1) \o << Seg(x.c, x.off, x.n + y.n) >> \o Tail(b)
            ELSE a \o b

\* The bytes are exactly the bytes of one object
IsWhole(bs) == Len(bs) = 1 /\ bs[1].off = 0 /\ bs[1].n = bs[1].c.len

\* u16::to_be_bytes / u16::from_be_bytes
ToBeBytes(n) == << n \div 256, n % 256 >>
FromBeBytes(b) == b[1] * 256 + b[2]
\* usize -> u16 try_into
TryIntoU16(n) == IF n <= U16_MAX THEN Ok(n) ELSE Err("TryFromIntError")

\* ------------------------------------------------------------ keys
SecretKeys == {"A", "B", "R", "X"}
PublicKey(sk) == << "pub", sk >>

\* ------------------------------------------------------------ engine
\* snow in handshake mode, pattern KK.  A first message names the sender's
\* ephemeral and static keys and the responder key it was built for; the
\* receiver opens it only with that responder key and that sender key.
EngineWriteMsg1(my_privkey, their_pubkey, payload) ==
    [kind |-> "m1", e |-> << "eph", my_privkey >>, s |-> PublicKey(my_privkey),
     rs |-> their_pubkey, pay |-> payload,
     len |-> KEY_SIZE + Len(payload) + MAC_SIZE]

EngineReadMsg1(my_privkey, their_pubkey, message) ==
    IF /\ IsWhole(message)
       /\ message[1].c.kind = "m1"
       /\ message[1].c.rs = PublicKey(my_privkey)
       /\ message[1].c.s = their_pubkey
    THEN Ok(message[1].c.pay)
    ELSE Err("Noise")

\* The second message is bound to the transcript of the first.
EngineWriteMsg2(my_privkey, m1) ==
    [kind |-> "m2", e |-> << "eph", my_privkey >>, h |-> m1,
     len |-> KEY_SIZE + MAC_SIZE]

EngineReadMsg2(m1, message) ==
    IF /\ IsWhole(message)
       /\ message[1].c.kind = "m2"
       /\ message[1].c.h = m1
    THEN Ok(message[1].c)
    ELSE Err("Noise")

\* snow in transport mode: one key and one nonce counter per direction.
EngineWrite(ts, payload, outLen) ==
    IF DataLen(payload) + MAC_SIZE > NOISE_MESSAGE_MAX_SIZE
       \/ DataLen(payload) + MAC_SIZE > outLen
    THEN [res |-> Err("Noise"), ts |-> ts]
    ELSE [res |-> Ok([kind |-> "ct", k |-> ts.sendKey, nonce |-> ts.sendN,
                      pt |-> payload, len |-> DataLen(payload) + MAC_SIZE]),
          ts |-> [ts EXCEPT !.sendN = @ + 1]]

\* advances: whether this build of the engine advances the receiving nonce
\* on a ciphertext it rejects (engine versions differ).
EngineRead(ts, bytes, outLen, advances) ==
    IF BLen(bytes) > NOISE_MESSAGE_MAX_SIZE
    THEN [res |-> Err("Noise"), ts |-> ts]
    ELSE IF BLen(bytes) < MAC_SIZE \/ outLen < BLen(bytes) - MAC_SIZE
    THEN [res |-> Err("Noise"), ts |-> ts]
    ELSE IF /\ IsWhole(bytes)
            /\ bytes[1].c.kind = "ct"
            /\ bytes[1].c.k = ts.recvKey
            /\ bytes[1].c.nonce = ts.recvN
    THEN [res |-> Ok(bytes[1].c.pt), ts |-> [ts EXCEPT !.recvN = @ + 1]]
    ELSE [res |-> Err("Noise"),
          ts |-> IF advances THEN [ts EXCEPT !.recvN = @ + 1] ELSE ts]

\* ------------------------------------------------------------ noise.rs
Zeros(n) == [i \in 1..n |-> 0]
ZeroBytes(n) == Whole(Junk(0, n))

\* A handshake object: role, own secret key, the remote static key it is
\* bound to, and the messages of the transcript so far.
HandshakeState(role, my_privkey, their_pubkey, m1, m2) ==
    [role |-> role, s |-> my_privkey, rs |-> their_pubkey, m1 |-> m1, m2 |-> m2]

\* KKHandshakeActOne::initiator
ActOneInitiator(my_privkey, their_pubkey) ==
    LET m1 == EngineWriteMsg1(my_privkey, their_pubkey, HANDSHAKE_MESSAGE)
    IN IF m1.len > KK_MSG_1_SIZE
       THEN Err("Noise")
       ELSE Ok([state |-> HandshakeState("initiator", my_privkey, their_pubkey, m1, None),
                msg |-> Concat(Whole(m1), ZeroBytes(KK_MSG_1_SIZE - m1.len))])

\* Variant: the payload is not compared with the tag
TagMatches_Any(payload) == TRUE

\* The tag comparison of the responder: msg[..HANDSHAKE_MESSAGE.len()] of the
\* zero-initialised buffer the payload was decrypted into
TagMatches(payload) ==
    LET msg == payload \o Zeros(KK_MSG_1_SIZE - Len(payload))
    IN SubSeq(msg, 1, Len(HANDSHAKE_MESSAGE)) = HANDSHAKE_MESSAGE

\* Variant: a candidate the engine rejects ends the search with its error
TryCandidate_Propagate(my_privkey, their_pubkey, message) ==
    LET r == EngineReadMsg1(my_privkey, their_pubkey, message)
    IN IF ~r.ok THEN [continue |-> FALSE, res |-> Err("Noise")]
       ELSE IF ~TagMatches(r.val)
       THEN [continue |-> FALSE, res |-> Err("BadHandshake")]
       ELSE [continue |-> FALSE,
             res |-> Ok(HandshakeState("responder", my_privkey, their_pubkey,
                                       message[1].c, None))]

\* Variant: the engine's verdict is not looked at, the tag is compared in
\* the buffer as the engine left it
TryCandidate_Unchecked(my_privkey, their_pubkey, message) ==
    LET r == EngineReadMsg1(my_privkey, their_pubkey, message)
    IN IF ~TagMatches(IF r.ok THEN r.val ELSE << >>)
       THEN [continue |-> FALSE, res |-> Err("BadHandshake")]
       ELSE [continue |-> FALSE,
             res |-> Ok(HandshakeState("responder", my_privkey, their_pubkey,
                                       message[1].c, None))]

\* The body of the responder's loop for one candidate: "continue" when the
\* engine rejects the message, otherwise the value returned.
TryCandidate(my_privkey, their_pubkey, message) ==
    LET r == EngineReadMsg1(my_privkey, their_pubkey, message)
    IN IF ~r.ok THEN [continue |-> TRUE, res |-> NoVal]
       ELSE IF ~TagMatches(r.val)
       THEN [continue |-> FALSE, res |-> Err("BadHandshake")]
       ELSE [continue |-> FALSE,
             res |-> Ok(HandshakeState("responder", my_privkey, their_pubkey,
                                       message[1].c, None))]

RECURSIVE ScanCandidates(_, _, _)
ScanCandidates(my_privkey, their_possible_pubkeys, message) ==
    IF their_possible_pubkeys = << >> THEN Err("MissingStaticKey")
    ELSE LET t == TryCandidate(my_privkey, Head(their_possible_pubkeys), message)
         IN IF t.continue
            THEN ScanCandidates(my_privkey, Tail(their_possible_pubkeys), message)
            ELSE t.res

\* KKHandshakeActOne::responder
ActOneResponder(my_privkey, their_possible_pubkeys, message) ==
    ScanCandidates(my_privkey, their_possible_pubkeys, message)

\* Variant: the result of the engine's read is not looked at
ActTwoInitiator_Unchecked(handshake, message) ==
    LET r == EngineReadMsg2(handshake.m1, message)
        read == IF r.ok THEN r.val
                ELSE [kind |-> "m2", e |-> << "eph", "none" >>, h |-> handshake.m1,
                      len |-> KK_MSG_2_SIZE]
    IN Ok([handshake EXCEPT !.m2 = Some(read)])

\* KKHandshakeActTwo::initiator
ActTwoInitiator(handshake, message) ==
    LET r == EngineReadMsg2(handshake.m1, message)
    IN IF ~r.ok THEN Err("Noise")
       ELSE Ok([handshake EXCEPT !.m2 = Some(r.val)])

\* KKHandshakeActTwo::responder
ActTwoResponder(handshake) ==
    LET m2 == EngineWriteMsg2(handshake.s, handshake.m1)
    IN IF m2.len > KK_MSG_2_SIZE
       THEN Err("Noise")
       ELSE Ok([state |-> [handshake EXCEPT !.m2 = Some(m2)],
                msg |-> Concat(Whole(m2), ZeroBytes(KK_MSG_2_SIZE - m2.len))])

\* The session the two ephemeral and two static keys agree on
Session(state) == << state.m1.e, state.m1.s, state.m1.rs, state.m2.v.e >>

\* KKChannel::from_handshake (into_transport_mode)
FromHandshake(state) ==
    IF ~state.m2.some THEN Err("Noise")
    ELSE Ok([sendKey |-> << state.role, Session(state) >>,
             recvKey |-> << IF state.role = "initiator" THEN "responder" ELSE "initiator",
                            Session(state) >>,
             sendN |-> 0, recvN |-> 0, rs |-> state.rs])

encrypted_msg_size(plaintext_size) ==
    NOISE_MESSAGE_HEADER_SIZE + plaintext_size + MAC_SIZE

\* The length prefix as a plaintext of two bytes
Prefix(message_len) == DataBytes("prefix", ToBeBytes(message_len))

\* Variant: the prefix holds the length of the plaintext
EncryptMessage_PlainLen(ch, message) ==
    IF DataLen(message) > NOISE_PLAINTEXT_MAX_SIZE
    THEN [res |-> Err("InvalidPlaintext"), ch |-> ch]
    ELSE
    LET outLen == encrypted_msg_size(DataLen(message))
        message_len == TryIntoU16(DataLen(message))
    IN IF ~message_len.ok THEN [res |-> Err("panic"), ch |-> ch]
       ELSE
       LET h == EngineWrite(ch, Prefix(message_len.val), NOISE_MESSAGE_HEADER_SIZE)
       IN IF ~h.res.ok THEN [res |-> Err("Noise"), ch |-> h.ts]
          ELSE
          LET b == EngineWrite(h.ts, message, outLen - NOISE_MESSAGE_HEADER_SIZE)
          IN IF ~b.res.ok THEN [res |-> Err("Noise"), ch |-> b.ts]
             ELSE [res |-> Ok(Concat(Concat(Whole(h.res.val), Whole(b.res.val)),
                                     ZeroBytes(outLen - h.res.val.len - b.res.val.len))),
                   ch |-> b.ts]

\* Variant: the body is encrypted before the header
EncryptMessage_BodyFirst(ch, message) ==
    IF DataLen(message) > NOISE_PLAINTEXT_MAX_SIZE
    THEN [res |-> Err("InvalidPlaintext"), ch |-> ch]
    ELSE
    LET outLen == encrypted_msg_size(DataLen(message))
        message_len == TryIntoU16(MAC_SIZE + DataLen(message))
    IN IF ~message_len.ok THEN [res |-> Err("panic"), ch |-> ch]
       ELSE
       LET b == EngineWrite(ch, message, outLen - NOISE_MESSAGE_HEADER_SIZE)
       IN IF ~b.res.ok THEN [res |-> Err("Noise"), ch |-> b.ts]
          ELSE
          LET h == EngineWrite(b.ts, Prefix(message_len.val), NOISE_MESSAGE_HEADER_SIZE)
          IN IF ~h.res.ok THEN [res |-> Err("Noise"), ch |-> h.ts]
             ELSE [res |-> Ok(Concat(Concat(Whole(h.res.val), Whole(b.res.val)),
                                     ZeroBytes(outLen - h.res.val.len - b.res.val.len))),
                   ch |-> h.ts]

\* Variant: the header is encrypted before the size of the plaintext is checked
EncryptMessage_CheckLate(ch, message) ==
    LET outLen == encrypted_msg_size(DataLen(message))
        message_len == TryIntoU16(MAC_SIZE + DataLen(message))
    IN IF ~message_len.ok THEN [res |-> Err("panic"), ch |-> ch]
       ELSE
       LET h == EngineWrite(ch, Prefix(message_len.val), NOISE_MESSAGE_HEADER_SIZE)
       IN IF ~h.res.ok THEN [res |-> Err("Noise"), ch |-> h.ts]
          ELSE IF DataLen(message) > NOISE_PLAINTEXT_MAX_SIZE
          THEN [res |-> Err("InvalidPlaintext"), ch |-> h.ts]
          ELSE
          LET b == EngineWrite(h.ts, message, outLen - NOISE_MESSAGE_HEADER_SIZE)
          IN IF ~b.res.ok THEN [res |-> Err("Noise"), ch |-> b.ts]
             ELSE [res |-> Ok(Concat(Concat(Whole(h.res.val), Whole(b.res.val)),
                                     ZeroBytes(outLen - h.res.val.len - b.res.val.len))),
                   ch |-> b.ts]

\* KKChannel::encrypt_message: [res, ch]
EncryptMessage(ch, message) ==
    IF DataLen(message) > NOISE_PLAINTEXT_MAX_SIZE
    THEN [res |-> Err("InvalidPlaintext"), ch |-> ch]
    ELSE
    LET outLen == encrypted_msg_size(DataLen(message))
        message_len == TryIntoU16(MAC_SIZE + DataLen(message))
    IN IF ~message_len.ok THEN [res |-> Err("panic"), ch |-> ch]
       ELSE
       LET h == EngineWrite(ch, Prefix(message_len.val), NOISE_MESSAGE_HEADER_SIZE)
       IN IF ~h.res.ok THEN [res |-> Err("Noise"), ch |-> h.ts]
          ELSE
          LET b == EngineWrite(h.ts, message, outLen - NOISE_MESSAGE_HEADER_SIZE)
          IN IF ~b.res.ok THEN [res |-> Err("Noise"), ch |-> b.ts]
             ELSE [res |-> Ok(Concat(Concat(Whole(h.res.val), Whole(b.res.val)),
                                     ZeroBytes(outLen - h.res.val.len - b.res.val.len))),
                   ch |-> b.ts]

\* Variant: the header is decrypted on a copy of the state
DecryptHeader_Peek(ch, header, advances) ==
    LET r == EngineRead(ch, header, NOISE_MESSAGE_HEADER_SIZE, advances)
    IN IF ~r.res.ok THEN [res |-> Err("Noise"), ch |-> ch]
       ELSE [res |-> Ok(FromBeBytes(r.res.val.be)), ch |-> ch]

\* KKChannel::decrypt_header: [res, ch]
DecryptHeader(ch, header, advances) ==
    LET r == EngineRead(ch, header, NOISE_MESSAGE_HEADER_SIZE, advances)
    IN IF ~r.res.ok THEN [res |-> Err("Noise"), ch |-> r.ts]
       ELSE [res |-> Ok(FromBeBytes(r.res.val.be)), ch |-> r.ts]

\* Variant: the engine's error is dropped and the buffer returned
DecryptMessage_Swallow(ch, message, advances) ==
    IF BLen(message) > NOISE_MESSAGE_MAX_SIZE
    THEN [res |-> Err("InvalidCiphertext"), ch |-> ch]
    ELSE IF BLen(message) < MAC_SIZE
    THEN [res |-> Err("InvalidCiphertext"), ch |-> ch]
    ELSE
    LET r == EngineRead(ch, message, BLen(message), advances)
        got == IF r.res.ok THEN r.res.val ELSE NoData
        plaintext == [got EXCEPT !.pad = BLen(message) - got.len]
    IN [res |-> Ok(Truncate(plaintext, DataLen(plaintext) - MAC_SIZE)), ch |-> r.ts]

\* KKChannel::decrypt_message: [res, ch]
DecryptMessage(ch, message, advances) ==
    IF BLen(message) > NOISE_MESSAGE_MAX_SIZE
    THEN [res |-> Err("InvalidCiphertext"), ch |-> ch]
    ELSE IF BLen(message) < MAC_SIZE
    THEN [res |-> Err("InvalidCiphertext"), ch |-> ch]
    ELSE
    LET r == EngineRead(ch, message, BLen(message), advances)
    IN IF ~r.res.ok THEN [res |-> Err("Noise"), ch |-> r.ts]
       ELSE LET plaintext == [r.res.val EXCEPT !.pad = BLen(message) - r.res.val.len]
            IN [res |-> Ok(Truncate(plaintext, DataLen(plaintext) - MAC_SIZE)),
                ch |-> r.ts]

\* KKChannel::remote_static
RemoteStatic(ch) == ch.rs

\* ------------------------------------------------------------ state
VARIABLES
    cfg,      \* the keys of the run: initiator key, the public key it targets,
              \* responder key, the responder's candidate list
    adv,      \* whether this build's engine advances the receiving nonce on
              \* a ciphertext it rejects (engine versions differ)
    act1,     \* per side: the result of Act One, None before it ran
    act2,     \* per side: the result of Act Two, None before it ran
    chan,     \* per side: the KKChannel, None before it exists
    msgs,     \* the handshake messages produced: m1, m2 (None before)
    given,    \* the message each side was handed in the handshake
    out,      \* per side: the successful encrypt_message calls, in order
    rcvPos,   \* per side: pieces of the peer's output consumed in order
    inOrder,  \* per side: every decrypt call so far took the next piece
    stray,    \* decrypt calls made that did not take the next piece
    last,     \* the last call and its result
    stream,   \* per direction: the bytes written and not yet read
    pc,       \* per side: where its transport call stands
    loc,      \* per side: the locals of the call under way
    call,     \* per side: the attempts, pauses and result of its latest call;
              \* of a write, the size of its ciphertext and the bytes it has
              \* put on the stream; of a read, the attempt whose header
              \* announced less than a MAC, and whether the last failed
              \* attempt had taken bytes from the stream
    calls,    \* write and read calls started
    trace     \* handshake messages written, handshake stages passed,
              \* plaintexts written and returned, stream operations that
              \* failed after moving some bytes

apiVars == << act1, act2, msgs, given, out, rcvPos, inOrder, stray, last >>
transVars == << stream, pc, loc, call, calls, trace >>
vars == << cfg, adv, chan, apiVars, transVars >>

Sides == {"cli", "srv"}
Peer(side) == IF side = "cli" THEN "srv" ELSE "cli"
Range(f) == {f[i] : i \in DOMAIN f}

InitiatorKeys == {"A", "B"}
ResponderKeys == {"R", "X"}
RECURSIVE SeqsUpTo(_, _)
SeqsUpTo(S, n) ==
    IF n = 0 THEN {<< >>}
    ELSE LET shorter == SeqsUpTo(S, n - 1)
         IN shorter \cup {Append(q, x) : q \in {r \in shorter : Len(r) = n - 1}, x \in S}
CandidateLists == SeqsUpTo({PublicKey(k) : k \in InitiatorKeys}, MaxCands)
Configs ==
    [iKey : InitiatorKeys, target : {PublicKey(k) : k \in ResponderKeys},
     rKey : {"R"}, cands : CandidateLists]

NoCall == [op |-> "none"]
Both(v) == [side \in Sides |-> v]

\* Buffers of the right size that no initiator or responder produced
BadMsg1 == {Whole(Junk(f, KK_MSG_1_SIZE)) : f \in {0, 1}}
BadMsg2 == {Whole(Junk(f, KK_MSG_2_SIZE)) : f \in {0, 1}}

\* The tag of another version of the protocol, b"practical_revault_1"
OtherTag == [HANDSHAKE_MESSAGE EXCEPT ![Len(HANDSHAKE_MESSAGE)] = 49]
\* A first message the engine of an initiator of that version produces
ForeignMsg1(my_privkey, their_pubkey) ==
    Whole(EngineWriteMsg1(my_privkey, their_pubkey, OtherTag))

\* Errors as transport.rs sees them: Error::Transport(io) or Error::Noise(e)
NoErr == [t |-> "none", kind |-> "none"]
TransportErr(kind) == [t |-> "Transport", kind |-> kind]
NoiseErr(e) == [t |-> "Noise", kind |-> e]
\* The error value of the n-th attempt of a call
At(error, n) == [t |-> error.t, kind |-> error.kind, at |-> n]

NoCallYet ==
    [op |-> "none", tries |-> 0, fails |-> 0, sleeps |-> 0, trans |-> 0,
     firstNoise |-> 0, firstFatal |-> 0, lastErr |-> NoErr,
     size |-> 0, put |-> 0, shortAt |-> 0, moved |-> FALSE,
     done |-> FALSE, res |-> Ok(NoVal)]
NoLocals == [attempts |-> 0, enc |-> << >>, msg_len |-> 0, hs |-> None, ch |-> None]
NoTrace ==
    [wire |-> << >>, stages |-> Both(<< >>), wrote |-> Both(<< >>), got |-> Both(<< >>),
     partial |-> 0]

\* No transport in this run
TransportOff ==
    /\ stream = [c2s |-> << >>, s2c |-> << >>]
    /\ pc = Both("off")
    /\ loc = Both(NoLocals)
    /\ call = Both(NoCallYet)
    /\ calls = 0
    /\ trace = NoTrace

InitHandshake ==
    /\ cfg \in Configs
    /\ adv \in BOOLEAN
    /\ act1 = Both(None)
    /\ act2 = Both(None)
    /\ chan = Both(None)
    /\ msgs = [m1 |-> None, m2 |-> None]
    /\ given = Both(None)
    /\ out = Both(<< >>)
    /\ rcvPos = Both(0)
    /\ inOrder = Both(TRUE)
    /\ stray = 0
    /\ last = NoCall
    /\ TransportOff

\* ------------------------------------------------------------ handshake calls
\* KKHandshakeActOne::initiator(my_privkey, their_pubkey)
CallActOneInitiator ==
    /\ ~act1.cli.some
    /\ LET r == ActOneInitiator(cfg.iKey, cfg.target)
       IN /\ act1' = [act1 EXCEPT !.cli = Some(IF r.ok THEN Ok(r.val.state) ELSE r)]
          /\ msgs' = [msgs EXCEPT !.m1 = IF r.ok THEN Some(r.val.msg) ELSE None]
          /\ last' = [op |-> "act_one_initiator", side |-> "cli", res |-> r]
    /\ UNCHANGED << cfg, adv, act2, chan, given, out, rcvPos, inOrder, stray, transVars >>

\* KKHandshakeActOne::responder(my_privkey, their_possible_pubkeys, message)
CallActOneResponder ==
    /\ ~act1.srv.some
    /\ \E message \in (IF msgs.m1.some THEN {msgs.m1.v} ELSE {}) \cup BadMsg1
                         \cup {ForeignMsg1(cfg.iKey, cfg.target)} :
        LET r == ActOneResponder(cfg.rKey, cfg.cands, message)
        IN /\ act1' = [act1 EXCEPT !.srv = Some(r)]
           /\ given' = [given EXCEPT !.srv = Some(message)]
           /\ last' = [op |-> "act_one_responder", side |-> "srv", res |-> r]
    /\ UNCHANGED << cfg, adv, act2, chan, msgs, out, rcvPos, inOrder, stray, transVars >>

\* KKHandshakeActTwo::responder(handshake)
CallActTwoResponder ==
    /\ act1.srv.some /\ act1.srv.v.ok
    /\ ~act2.srv.some
    /\ LET r == ActTwoResponder(act1.srv.v.val)
       IN /\ act2' = [act2 EXCEPT !.srv = Some(IF r.ok THEN Ok(r.val.state) ELSE r)]
          /\ msgs' = [msgs EXCEPT !.m2 = IF r.ok THEN Some(r.val.msg) ELSE None]
          /\ last' = [op |-> "act_two_responder", side |-> "srv", res |-> r]
    /\ UNCHANGED << cfg, adv, act1, chan, given, out, rcvPos, inOrder, stray, transVars >>

\* KKHandshakeActTwo::initiator(handshake, message)
CallActTwoInitiator ==
    /\ act1.cli.some /\ act1.cli.v.ok
    /\ ~act2.cli.some
    /\ \E message \in (IF msgs.m2.some THEN {msgs.m2.v} ELSE {}) \cup BadMsg2 :
        LET r == ActTwoInitiator(act1.cli.v.val, message)
        IN /\ act2' = [act2 EXCEPT !.cli = Some(r)]
           /\ given' = [given EXCEPT !.cli = Some(message)]
           /\ last' = [op |-> "act_two_initiator", side |-> "cli", res |-> r]
    /\ UNCHANGED << cfg, adv, act1, chan, msgs, out, rcvPos, inOrder, stray, transVars >>

\* KKChannel::from_handshake(state)
CallFromHandshake ==
    \E side \in Sides :
        /\ act2[side].some /\ act2[side].v.ok
        /\ ~chan[side].some
        /\ LET r == FromHandshake(act2[side].v.val)
           IN /\ chan' = [chan EXCEPT ![side] = IF r.ok THEN Some(r.val) ELSE None]
              /\ last' = [op |-> "from_handshake", side |-> side, res |-> r]
        /\ UNCHANGED << cfg, adv, act1, act2, msgs, given, out, rcvPos, inOrder, stray, transVars >>

\* KKChannel::remote_static()
CallRemoteStatic ==
    \E side \in Sides :
        /\ chan[side].some
        /\ last' = [op |-> "remote_static", side |-> side,
                    res |-> Ok(RemoteStatic(chan[side].v))]
        /\ UNCHANGED << cfg, adv, act1, act2, chan, msgs, given, out, rcvPos, inOrder, stray, transVars >>

NextHandshake ==
    \/ CallActOneInitiator
    \/ CallActOneResponder
    \/ CallActTwoResponder
    \/ CallActTwoInitiator
    \/ CallFromHandshake
    \/ CallRemoteStatic

\* The handshake functions of noise.rs, called as its tests call them
SpecHandshake == InitHandshake /\ [][NextHandshake]_vars

\* ------------------------------------------------------------ channel calls
\* The state test_bidirectional_roundtrip starts its channel calls from:
\* initiator A and responder R, each knowing the other, handshake completed.
EstCfg ==
    [iKey |-> "A", target |-> PublicKey("R"), rKey |-> "R",
     cands |-> << PublicKey("A") >>]
EstI1 == ActOneInitiator(EstCfg.iKey, EstCfg.target)
EstR1 == ActOneResponder(EstCfg.rKey, EstCfg.cands, EstI1.val.msg)
EstR2 == ActTwoResponder(EstR1.val)
EstI2 == ActTwoInitiator(EstI1.val.state, EstR2.val.msg)

InitChannel ==
    /\ cfg = EstCfg
    /\ adv \in BOOLEAN
    /\ act1 = [cli |-> Some(Ok(EstI1.val.state)), srv |-> Some(EstR1)]
    /\ act2 = [cli |-> Some(EstI2), srv |-> Some(Ok(EstR2.val.state))]
    /\ chan = [cli |-> Some(FromHandshake(EstI2.val).val),
               srv |-> Some(FromHandshake(EstR2.val.state).val)]
    /\ msgs = [m1 |-> Some(EstI1.val.msg), m2 |-> Some(EstR2.val.msg)]
    /\ given = [cli |-> Some(EstR2.val.msg), srv |-> Some(EstI1.val.msg)]
    /\ out = Both(<< >>)
    /\ rcvPos = Both(0)
    /\ inOrder = Both(TRUE)
    /\ stray = 0
    /\ last = NoCall
    /\ TransportOff

\* Plaintexts the callers pass: empty, short, the longest
\* accepted, the shortest rejected
SamplePlaintexts ==
    { NoData, Data("Hello", 5),
      Data("max", NOISE_PLAINTEXT_MAX_SIZE),
      Data("over", NOISE_PLAINTEXT_MAX_SIZE + 1) }

\* The k-th piece a side produced: header of message 1, body of message 1,
\* header of message 2, ...
PieceOf(side, k) ==
    LET e == out[side][(k + 1) \div 2]
    IN IF k % 2 = 1
       THEN Take(e.bytes, NOISE_MESSAGE_HEADER_SIZE)
       ELSE Drop(e.bytes, NOISE_MESSAGE_HEADER_SIZE)
Pieces(side) == 1 .. 2 * Len(out[side])

\* Byte strings no engine produced, handed to decrypt_message
JunkBodies ==
    { << >>, Whole(Junk(0, MAC_SIZE - 1)), Whole(Junk(0, MAC_SIZE)),
      Whole(Junk(0, NOISE_MESSAGE_MAX_SIZE + 1)) }


\* channel.encrypt_message(m)
Encrypt(side, m) ==
    /\ chan[side].some
    /\ LET r == EncryptMessage(chan[side].v, m)
       IN /\ chan' = [chan EXCEPT ![side] = Some(r.ch)]
          /\ out' = [out EXCEPT ![side] =
                        IF r.res.ok THEN Append(@, [m |-> m, bytes |-> r.res.val]) ELSE @]
          /\ last' = [op |-> "encrypt_message", side |-> side, arg |-> m,
                      pre |-> chan[side].v, res |-> r.res]
    /\ UNCHANGED << cfg, adv, act1, act2, msgs, given, rcvPos, inOrder, stray, transVars >>

CallEncrypt ==
    \E side \in Sides, m \in SamplePlaintexts :
        /\ Len(out.cli) + Len(out.srv) < MaxMsgs
        /\ Encrypt(side, m)

\* The call takes the next piece of the peer's output, with the call meant
\* for it (decrypt_header for a header, decrypt_message for a body)
IsNext(side, op, k) ==
    /\ k = rcvPos[side] + 1
    /\ (op = "decrypt_header") = (k % 2 = 1)

\* The bookkeeping of a decrypt call: k is the piece handed over (0: none).
\* Calls that do not take the next piece are followed MaxStray times.
Consumed(side, op, k, arg, r) ==
    /\ IsNext(side, op, k) \/ stray < MaxStray
    /\ chan' = [chan EXCEPT ![side] = Some(r.ch)]
    /\ stray' = IF IsNext(side, op, k) THEN stray ELSE stray + 1
    /\ inOrder' = [inOrder EXCEPT ![side] = @ /\ IsNext(side, op, k)]
    /\ rcvPos' = [rcvPos EXCEPT ![side] = IF IsNext(side, op, k) THEN @ + 1 ELSE @]
    /\ last' = [op |-> op, side |-> side, arg |-> arg, k |-> k,
                pre |-> chan[side].v, ord |-> inOrder[side], pos |-> rcvPos[side],
                res |-> r.res]
    /\ UNCHANGED << cfg, adv, act1, act2, msgs, given, out, transVars >>

\* channel.decrypt_header(NoiseEncryptedHeader(first 18 bytes of piece k))
DecryptHeaderCall(side, k) ==
    /\ chan[side].some
    /\ k \in Pieces(Peer(side))
    /\ BLen(PieceOf(Peer(side), k)) >= NOISE_MESSAGE_HEADER_SIZE
    /\ LET header == Take(PieceOf(Peer(side), k), NOISE_MESSAGE_HEADER_SIZE)
       IN Consumed(side, "decrypt_header", k, header,
                   DecryptHeader(chan[side].v, header, adv))

\* channel.decrypt_message(NoiseEncryptedMessage(piece k))
DecryptMessageCall(side, k) ==
    /\ chan[side].some
    /\ k \in Pieces(Peer(side))
    /\ LET body == PieceOf(Peer(side), k)
       IN Consumed(side, "decrypt_message", k, body,
                   DecryptMessage(chan[side].v, body, adv))

CallDecryptHeader ==
    \E side \in Sides, k \in 1 .. 2 * MaxMsgs :
        DecryptHeaderCall(side, k)

CallDecryptMessage ==
    \E side \in Sides :
        \/ \E k \in 1 .. 2 * MaxMsgs : DecryptMessageCall(side, k)
        \/ \E body \in JunkBodies :
            /\ chan[side].some
            /\ Consumed(side, "decrypt_message", 0, body,
                        DecryptMessage(chan[side].v, body, adv))

NextChannel ==
    \/ CallEncrypt
    \/ CallDecryptHeader
    \/ CallDecryptMessage

\* The channel functions of noise.rs on two connected channels
SpecChannel == InitChannel /\ [][NextChannel]_vars

\* One encrypt_message of every length, then the peer's decrypt calls
CallEncryptProbe ==
    /\ out.srv = << >>
    /\ last = NoCall
    /\ \E n \in 0 .. MaxProbeLen : Encrypt("srv", Data("probe", n))

\* The peer takes the header, then the body
CallProbeDecryptHeader ==
    /\ rcvPos.cli = 0
    /\ DecryptHeaderCall("cli", 1)

CallProbeDecryptMessage ==
    /\ rcvPos.cli = 1
    /\ DecryptMessageCall("cli", 2)

NextLen ==
    \/ CallEncryptProbe
    \/ CallProbeDecryptHeader
    \/ CallProbeDecryptMessage

\* encrypt_message and the peer's two decrypt calls, for every length
SpecLen == InitChannel /\ [][NextLen]_vars

\* ------------------------------------------------------------ transport.rs
\* The direction a side writes to, and the one it reads from
Dir(side) == IF side = "cli" THEN "c2s" ELSE "s2c"
In(side) == Dir(Peer(side))
Min(a, b) == IF a <= b THEN a ELSE b

\* io::ErrorKind values the stream's operations end with.  ConnectionReset
\* stands for the kinds the retry loops take as transient.
TransientKinds == {"ConnectionReset"}
FatalKinds == {"UnexpectedEof", "Interrupted"}

\* A failed operation may have moved some bytes as long as the run has
\* followed fewer than MaxPartial such failures
MayMove == trace.partial < MaxPartial

\* The peer of side has let go of its end of the stream: its connect or
\* accept returned an error, or it dropped its transport
PeerGone(side) == pc[Peer(side)] \in {"failed", "closed"}

\* stream.read_exact(buf) for a buffer of k bytes: it returns Ok once k bytes
\* are there, or ends with the error of a read after taking j < k of them
\* (read_exact goes on after Interrupted, so never ends with it); once the
\* peer is gone and fewer than k bytes are left it takes them all and ends
\* with UnexpectedEof.  On a reliable stream no read fails.
ReadOutcomes(side, k) ==
    LET avail == BLen(stream[In(side)])
    IN (IF avail >= k THEN {[ok |-> TRUE, kind |-> "none", j |-> k]} ELSE {})
       \cup (IF k > 0 /\ ~cfg.reliable
             THEN {[ok |-> FALSE, kind |-> kind, j |-> 0] : kind \in TransientKinds}
                  \cup {[ok |-> FALSE, kind |-> kind, j |-> j] :
                           kind \in TransientKinds,
                           j \in {x \in 1 .. Min(avail, k - 1) : MayMove}}
             ELSE {})
       \cup (IF avail < k /\ PeerGone(side)
             THEN {[ok |-> FALSE, kind |-> "UnexpectedEof", j |-> avail]}
             ELSE {})

\* stream.write_all(bytes): all of the bytes are written, or it ends with
\* the error of a write after writing j of them, fewer than all.
WriteOutcomes(bytes) ==
    {[ok |-> TRUE, kind |-> "none", j |-> BLen(bytes)]}
    \cup {[ok |-> FALSE, kind |-> kind, j |-> 0] :
             kind \in {x \in TransientKinds : ~cfg.reliable}}
    \cup {[ok |-> FALSE, kind |-> kind, j |-> j] :
             kind \in TransientKinds,
             j \in {x \in 1 .. BLen(bytes) - 1 : ~cfg.reliable /\ MayMove}}

\* TcpStream::connect_timeout and TcpListener::accept: the stream is there,
\* or the call ends with an error
OpenOutcomes == {TRUE} \cup {x \in {FALSE} : ~cfg.reliable}

\* The count of failures that moved bytes, after outcome o
Moved(tr, o) ==
    IF ~o.ok /\ o.j > 0 THEN [tr EXCEPT !.partial = @ + 1] ELSE tr

\* The keys of a transport run: the handshake succeeds, the initiator
\* targets a key the responder does not hold, the responder does not know
\* the initiator
\* Plaintexts handed to write
TransportPlaintexts ==
    { Data("Test message", 12), DataBytes("zeroes", << 0, 0 >>),
      Data("over", NOISE_PLAINTEXT_MAX_SIZE + 1) }

\* A transport run: the keys, the sides that call write and those that
\* call read, the plaintexts written, the calls followed; the stream's
\* operations may fail unless the run is marked reliable
TransportRun(keys, writers, readers, texts, budget) ==
    [iKey |-> keys.iKey, target |-> keys.target, rKey |-> keys.rKey,
     cands |-> keys.cands, writers |-> writers, readers |-> readers,
     texts |-> texts, budget |-> budget, reliable |-> FALSE]

TransportKeys ==
    { [iKey |-> "A", target |-> PublicKey("R"), rKey |-> "R",
       cands |-> << PublicKey("B"), PublicKey("A") >>],
      [iKey |-> "A", target |-> PublicKey("X"), rKey |-> "R",
       cands |-> << PublicKey("B"), PublicKey("A") >>],
      [iKey |-> "A", target |-> PublicKey("R"), rKey |-> "R",
       cands |-> << PublicKey("B") >>] }

TransportConfigs ==
    { TransportRun(keys, Sides, Sides, TransportPlaintexts, MaxCalls) :
        keys \in TransportKeys }

InitTransport ==
    /\ cfg \in TransportConfigs
    /\ adv \in BOOLEAN
    /\ chan = Both(None)
    /\ act1 = Both(None)
    /\ act2 = Both(None)
    /\ msgs = [m1 |-> None, m2 |-> None]
    /\ given = Both(None)
    /\ out = Both(<< >>)
    /\ rcvPos = Both(0)
    /\ inOrder = Both(TRUE)
    /\ stray = 0
    /\ last = NoCall
    /\ stream = [c2s |-> << >>, s2c |-> << >>]
    /\ pc = Both("start")
    /\ loc = Both(NoLocals)
    /\ call = Both(NoCallYet)
    /\ calls = 0
    /\ trace = NoTrace

Staged(side, names) ==
    [trace EXCEPT !.stages[side] = @ \o names]
Wired(tr, side, kind, n) ==
    [tr EXCEPT !.wire = Append(@, [by |-> side, kind |-> kind, n |-> n])]
Returned(op, res) ==
    [NoCallYet EXCEPT !.op = op, !.done = TRUE, !.res = res]

\* Variant: the result of write_all(msg_1) is not looked at
ConnectAfterWrite_Ignore(ok) == "c_recv"

\* connect, line 40: where connect goes after write_all(msg_1)
ConnectAfterWrite(ok) == IF ok THEN "c_recv" ELSE "failed"

\* KKTransport::connect up to its read: Act One, msg_1 written
ConnectSend ==
    /\ pc.cli = "start"
    /\ \E open \in OpenOutcomes :
        IF ~open
        THEN /\ pc' = [pc EXCEPT !.cli = "failed"]
             /\ call' = [call EXCEPT !.cli =
                            Returned("connect", Err(TransportErr("ConnectionRefused")))]
             /\ UNCHANGED << stream, loc, trace >>
        ELSE
        LET a1 == ActOneInitiator(cfg.iKey, cfg.target)
        IN \E o \in WriteOutcomes(a1.val.msg) :
            /\ stream' = [stream EXCEPT !.c2s = Concat(@, Take(a1.val.msg, o.j))]
            /\ pc' = [pc EXCEPT !.cli = ConnectAfterWrite(o.ok)]
            /\ loc' = [loc EXCEPT !.cli.hs = Some(a1.val.state)]
            /\ call' = [call EXCEPT !.cli =
                           IF o.ok THEN [NoCallYet EXCEPT !.op = "connect"]
                           ELSE Returned("connect", Err(TransportErr(o.kind)))]
            /\ trace' = Moved(Wired(Staged("cli", << "act1" >>), "cli", "m1", o.j), o)
    /\ UNCHANGED << cfg, adv, chan, apiVars, calls >>

\* connect, lines 46-49: Act Two and the channel, from the bytes read
ConnectFinish(cli_act_1, msg_2) ==
    LET a2 == ActTwoInitiator(cli_act_1, msg_2)
    IN IF ~a2.ok THEN [res |-> Err(NoiseErr(a2.err)), stages |-> << >>]
       ELSE LET ch == FromHandshake(a2.val)
            IN IF ~ch.ok THEN [res |-> Err(NoiseErr(ch.err)), stages |-> << "act2" >>]
               ELSE [res |-> Ok(ch.val), stages |-> << "act2", "chan" >>]

\* KKTransport::connect from its read on: msg_2 read, Act Two, the channel
ConnectRecv ==
    /\ pc.cli = "c_recv"
    /\ \E o \in ReadOutcomes("cli", KK_MSG_2_SIZE) :
        LET r == IF o.ok
                 THEN ConnectFinish(loc.cli.hs.v, Take(stream.s2c, KK_MSG_2_SIZE))
                 ELSE [res |-> Err(TransportErr(o.kind)), stages |-> << >>]
        IN /\ stream' = [stream EXCEPT !.s2c = Drop(@, o.j)]
           /\ pc' = [pc EXCEPT !.cli = IF r.res.ok THEN "idle" ELSE "failed"]
           /\ chan' = [chan EXCEPT !.cli = IF r.res.ok THEN Some(r.res.val) ELSE @]
           /\ loc' = [loc EXCEPT !.cli.hs = None]
           /\ call' = [call EXCEPT !.cli =
                          Returned("connect", IF r.res.ok THEN Ok(NoVal) ELSE r.res)]
           /\ trace' = Moved(Staged("cli", r.stages), o)
    /\ UNCHANGED << cfg, adv, apiVars, calls >>

\* Variant: message 2 is computed but not handed to the stream
AcceptHandshake_NoReply(my_noise_privkey, their_possible_pubkeys, msg_1) ==
    LET a1 == ActOneResponder(my_noise_privkey, their_possible_pubkeys, msg_1)
    IN IF ~a1.ok THEN [res |-> Err(NoiseErr(a1.err)), stages |-> << >>]
       ELSE LET a2 == ActTwoResponder(a1.val)
            IN IF ~a2.ok THEN [res |-> Err(NoiseErr(a2.err)), stages |-> << "act1" >>]
               ELSE LET ch == FromHandshake(a2.val.state)
                    IN IF ~ch.ok
                       THEN [res |-> Err(NoiseErr(ch.err)), stages |-> << "act1", "act2" >>]
                       ELSE [res |-> Ok([channel |-> ch.val, msg_2 |-> << >>]),
                             stages |-> << "act1", "act2", "chan" >>]

\* accept, lines 65-70: both acts and the channel, from the bytes read
AcceptHandshake(my_noise_privkey, their_possible_pubkeys, msg_1) ==
    LET a1 == ActOneResponder(my_noise_privkey, their_possible_pubkeys, msg_1)
    IN IF ~a1.ok THEN [res |-> Err(NoiseErr(a1.err)), stages |-> << >>]
       ELSE LET a2 == ActTwoResponder(a1.val)
            IN IF ~a2.ok THEN [res |-> Err(NoiseErr(a2.err)), stages |-> << "act1" >>]
               ELSE LET ch == FromHandshake(a2.val.state)
                    IN IF ~ch.ok
                       THEN [res |-> Err(NoiseErr(ch.err)), stages |-> << "act1", "act2" >>]
                       ELSE [res |-> Ok([channel |-> ch.val, msg_2 |-> a2.val.msg]),
                             stages |-> << "act1", "act2", "chan" >>]

\* KKTransport::accept up to its write: msg_1 read, both acts, the channel
AcceptRecv ==
    /\ pc.srv = "start"
    /\ \E open \in OpenOutcomes :
       IF ~open
       THEN /\ pc' = [pc EXCEPT !.srv = "failed"]
            /\ call' = [call EXCEPT !.srv =
                           Returned("accept", Err(TransportErr("ConnectionAborted")))]
            /\ UNCHANGED << stream, loc, trace >>
       ELSE
       \E o \in ReadOutcomes("srv", KK_MSG_1_SIZE) :
        LET r == IF o.ok
                 THEN AcceptHandshake(cfg.rKey, cfg.cands, Take(stream.c2s, KK_MSG_1_SIZE))
                 ELSE [res |-> Err(TransportErr(o.kind)), stages |-> << >>]
        IN /\ stream' = [stream EXCEPT !.c2s = Drop(@, o.j)]
           /\ pc' = [pc EXCEPT !.srv = IF r.res.ok THEN "a_send" ELSE "failed"]
           /\ loc' = [loc EXCEPT !.srv.ch = IF r.res.ok THEN Some(r.res.val.channel) ELSE @,
                                 !.srv.enc = IF r.res.ok THEN r.res.val.msg_2 ELSE @]
           /\ call' = [call EXCEPT !.srv =
                          IF r.res.ok THEN [NoCallYet EXCEPT !.op = "accept"]
                          ELSE Returned("accept", r.res)]
           /\ trace' = Moved(Staged("srv", r.stages), o)
    /\ UNCHANGED << cfg, adv, chan, apiVars, calls >>

\* KKTransport::accept, lines 73-75: msg_2 written, the transport returned
AcceptSend ==
    /\ pc.srv = "a_send"
    /\ \E o \in WriteOutcomes(loc.srv.enc) :
        /\ stream' = [stream EXCEPT !.s2c = Concat(@, Take(loc.srv.enc, o.j))]
        /\ pc' = [pc EXCEPT !.srv = IF o.ok THEN "idle" ELSE "failed"]
        /\ chan' = [chan EXCEPT !.srv = IF o.ok THEN loc.srv.ch ELSE @]
        /\ loc' = [loc EXCEPT !.srv = NoLocals]
        /\ call' = [call EXCEPT !.srv =
                       Returned("accept", IF o.ok THEN Ok(NoVal)
                                          ELSE Err(TransportErr(o.kind)))]
        /\ trace' = Moved(Wired(trace, "srv", "m2", o.j), o)
    /\ UNCHANGED << cfg, adv, apiVars, calls >>

\* Variant: the count is compared before it goes up
WriteOnError_LateCount(attempts) ==
    IF attempts = 5
    THEN [ret |-> TRUE, attempts |-> attempts + 1, sleep |-> FALSE]
    ELSE [ret |-> FALSE, attempts |-> attempts + 1, sleep |-> TRUE]

\* write, lines 89-97: what the loop does after a failed write_all
WriteOnError(attempts) ==
    IF attempts + 1 = 5
    THEN [ret |-> TRUE, attempts |-> attempts + 1, sleep |-> FALSE]
    ELSE [ret |-> FALSE, attempts |-> attempts + 1, sleep |-> TRUE]

\* KKTransport::write, lines 81-82: the message encrypted, once
WriteStart ==
    \E side \in cfg.writers, m \in cfg.texts :
        /\ pc[side] = "idle"
        /\ calls < cfg.budget
        /\ calls' = calls + 1
        /\ LET r == EncryptMessage(chan[side].v, m)
           IN /\ chan' = [chan EXCEPT ![side] = Some(r.ch)]
              /\ pc' = [pc EXCEPT ![side] = IF r.res.ok THEN "w_loop" ELSE "idle"]
              /\ loc' = [loc EXCEPT ![side] =
                            [NoLocals EXCEPT !.enc = IF r.res.ok THEN r.res.val ELSE << >>]]
              /\ call' = [call EXCEPT ![side] =
                             IF r.res.ok
                             THEN [NoCallYet EXCEPT !.op = "write",
                                                    !.size = BLen(r.res.val)]
                             ELSE Returned("write", Err(NoiseErr(r.res.err)))]
              /\ trace' = IF r.res.ok
                          THEN [trace EXCEPT !.wrote[side] = Append(@, m)]
                          ELSE trace
        /\ UNCHANGED << cfg, adv, apiVars, stream >>

\* Variant: the message is encrypted again before each retry
WriteAttempt_Reencrypt ==
    \E side \in Sides :
        /\ pc[side] = "w_loop"
        /\ \E o \in WriteOutcomes(loc[side].enc) :
            LET d == WriteOnError(loc[side].attempts)
                re == EncryptMessage(chan[side].v,
                                     trace.wrote[side][Len(trace.wrote[side])])
            IN /\ chan' = [chan EXCEPT ![side] =
                              IF o.ok \/ d.ret THEN @ ELSE Some(re.ch)]
               /\ stream' = [stream EXCEPT ![Dir(side)] =
                                Concat(@, Take(loc[side].enc, o.j))]
               /\ pc' = [pc EXCEPT ![side] = IF o.ok \/ d.ret THEN "idle" ELSE "w_loop"]
               /\ loc' = [loc EXCEPT ![side] =
                             IF o.ok \/ d.ret THEN NoLocals
                             ELSE [@ EXCEPT !.attempts = d.attempts,
                                            !.enc = re.res.val]]
               /\ call' = [call EXCEPT ![side] =
                              IF o.ok
                              THEN [@ EXCEPT !.tries = @ + 1, !.done = TRUE,
                                             !.put = @ + o.j,
                                             !.res = Ok(NoVal)]
                              ELSE [@ EXCEPT !.tries = @ + 1, !.fails = @ + 1,
                                             !.put = @ + o.j,
                                             !.trans = @ + 1,
                                             !.lastErr =
                                                 At(TransportErr(o.kind), call[side].tries + 1),
                                             !.sleeps = IF d.sleep THEN @ + 1 ELSE @,
                                             !.done = d.ret,
                                             !.res = IF d.ret
                                                     THEN Err(At(TransportErr(o.kind),
                                                                 call[side].tries + 1))
                                                     ELSE @]]
               /\ trace' = Moved(trace, o)
        /\ UNCHANGED << cfg, adv, apiVars, calls >>

\* KKTransport::write, one turn of its loop: write_all, and on an error the
\* count, the return or the pause
WriteAttempt ==
    \E side \in Sides :
        /\ pc[side] = "w_loop"
        /\ \E o \in WriteOutcomes(loc[side].enc) :
            LET d == WriteOnError(loc[side].attempts)
            IN /\ stream' = [stream EXCEPT ![Dir(side)] =
                                Concat(@, Take(loc[side].enc, o.j))]
               /\ pc' = [pc EXCEPT ![side] = IF o.ok \/ d.ret THEN "idle" ELSE "w_loop"]
               /\ loc' = [loc EXCEPT ![side] =
                             IF o.ok \/ d.ret THEN NoLocals
                             ELSE [@ EXCEPT !.attempts = d.attempts]]
               /\ call' = [call EXCEPT ![side] =
                              IF o.ok
                              THEN [@ EXCEPT !.tries = @ + 1, !.done = TRUE,
                                             !.put = @ + o.j,
                                             !.res = Ok(NoVal)]
                              ELSE [@ EXCEPT !.tries = @ + 1, !.fails = @ + 1,
                                             !.put = @ + o.j,
                                             !.trans = @ + 1,
                                             !.lastErr =
                                                 At(TransportErr(o.kind), call[side].tries + 1),
                                             !.sleeps = IF d.sleep THEN @ + 1 ELSE @,
                                             !.done = d.ret,
                                             !.res = IF d.ret
                                                     THEN Err(At(TransportErr(o.kind),
                                                                 call[side].tries + 1))
                                                     ELSE @]]
               /\ trace' = Moved(trace, o)
        /\ UNCHANGED << cfg, adv, chan, apiVars, calls >>

\* Variant: only Interrupted ends the loop, UnexpectedEof pauses and retries
ReadOnError_RetryEof(attempts, error) ==
    IF attempts = 4
    THEN [ret |-> TRUE, attempts |-> attempts, sleep |-> FALSE]
    ELSE IF error.t = "Transport"
    THEN IF error.kind = "Interrupted"
         THEN [ret |-> TRUE, attempts |-> attempts, sleep |-> FALSE]
         ELSE [ret |-> FALSE, attempts |-> attempts, sleep |-> TRUE]
    ELSE [ret |-> FALSE, attempts |-> attempts + 1, sleep |-> FALSE]

\* read, lines 128-141: what the loop does after a failed _read
ReadOnError(attempts, error) ==
    IF attempts = 4
    THEN [ret |-> TRUE, attempts |-> attempts, sleep |-> FALSE]
    ELSE IF error.t = "Transport"
    THEN IF error.kind = "UnexpectedEof" \/ error.kind = "Interrupted"
         THEN [ret |-> TRUE, attempts |-> attempts, sleep |-> FALSE]
         \* sleep, then "continue": the count is not reached
         ELSE [ret |-> FALSE, attempts |-> attempts, sleep |-> TRUE]
    \* "e => e": the error is dropped, the count goes up, the loop goes on
    ELSE [ret |-> FALSE, attempts |-> attempts + 1, sleep |-> FALSE]

IsTransient(error) == error.t = "Transport" /\ error.kind \in TransientKinds
IsFatal(error) == error.t = "Transport" /\ error.kind \in FatalKinds

\* A _read that ended with `error`, as the try-th of this call, having
\* taken bytes from the stream or not
ReadFailed(side, error, try, tr, took) ==
    LET d == ReadOnError(loc[side].attempts, error)
    IN /\ pc' = [pc EXCEPT ![side] = IF d.ret THEN "idle" ELSE "r_hdr"]
       /\ loc' = [loc EXCEPT ![side] =
                     IF d.ret THEN NoLocals
                     ELSE [NoLocals EXCEPT !.attempts = d.attempts]]
       /\ call' = [call EXCEPT ![side] =
                      [@ EXCEPT !.tries = try, !.fails = @ + 1,
                                !.lastErr = At(error, try),
                                !.moved = took,
                                !.trans = IF IsTransient(error) THEN @ + 1 ELSE @,
                                !.sleeps = IF d.sleep THEN @ + 1 ELSE @,
                                !.firstNoise = IF @ = 0 /\ error.t = "Noise" THEN try ELSE @,
                                !.firstFatal = IF @ = 0 /\ IsFatal(error) THEN try ELSE @,
                                !.done = d.ret,
                                !.res = IF d.ret THEN Err(At(error, try)) ELSE @]]
       /\ trace' = tr

\* KKTransport::read entered
ReadStart ==
    \E side \in cfg.readers :
        /\ pc[side] = "idle"
        /\ calls < cfg.budget
        /\ calls' = calls + 1
        /\ pc' = [pc EXCEPT ![side] = "r_hdr"]
        /\ loc' = [loc EXCEPT ![side] = NoLocals]
        /\ call' = [call EXCEPT ![side] = [NoCallYet EXCEPT !.op = "read"]]
        /\ UNCHANGED << cfg, adv, chan, apiVars, stream, trace >>

\* _read, lines 104-108: the header read and decrypted
ReadHeader ==
    \E side \in Sides :
        /\ pc[side] = "r_hdr"
        /\ call[side].tries < MaxLoops
        /\ \E o \in ReadOutcomes(side, NOISE_MESSAGE_HEADER_SIZE) :
            LET r == DecryptHeader(chan[side].v,
                                   Take(stream[In(side)], NOISE_MESSAGE_HEADER_SIZE), adv)
            IN /\ stream' = [stream EXCEPT ![In(side)] = Drop(@, o.j)]
               /\ chan' = [chan EXCEPT ![side] = IF o.ok THEN Some(r.ch) ELSE @]
               /\ IF o.ok /\ r.res.ok
                  THEN /\ pc' = [pc EXCEPT ![side] = "r_body"]
                       /\ loc' = [loc EXCEPT ![side].msg_len = r.res.val]
                       /\ call' = [call EXCEPT ![side] =
                                      [@ EXCEPT !.tries = @ + 1,
                                                !.shortAt = IF r.res.val < MAC_SIZE
                                                            THEN call[side].tries + 1
                                                            ELSE @]]
                       /\ trace' = trace
                  ELSE ReadFailed(side,
                                  IF o.ok THEN NoiseErr(r.res.err) ELSE TransportErr(o.kind),
                                  call[side].tries + 1, Moved(trace, o), o.j > 0)
        /\ UNCHANGED << cfg, adv, apiVars, calls >>

\* _read, lines 111-115: the body read and decrypted
ReadBody ==
    \E side \in Sides :
        /\ pc[side] = "r_body"
        /\ \E o \in ReadOutcomes(side, loc[side].msg_len) :
            LET r == DecryptMessage(chan[side].v,
                                    Take(stream[In(side)], loc[side].msg_len), adv)
            IN /\ stream' = [stream EXCEPT ![In(side)] = Drop(@, o.j)]
               /\ chan' = [chan EXCEPT ![side] = IF o.ok THEN Some(r.ch) ELSE @]
               /\ IF o.ok /\ r.res.ok
                  THEN /\ pc' = [pc EXCEPT ![side] = "idle"]
                       /\ loc' = [loc EXCEPT ![side] = NoLocals]
                       /\ call' = [call EXCEPT ![side] =
                                      [@ EXCEPT !.done = TRUE, !.res = Ok(r.res.val)]]
                       /\ trace' = [trace EXCEPT !.got[side] = Append(@, r.res.val)]
                  ELSE ReadFailed(side,
                                  IF o.ok THEN NoiseErr(r.res.err) ELSE TransportErr(o.kind),
                                  call[side].tries, Moved(trace, o), TRUE)
        /\ UNCHANGED << cfg, adv, apiVars, calls >>

\* The holder of a transport drops it between two calls: its TcpStream is
\* closed
DropTransport ==
    \E side \in Sides :
        /\ pc[side] = "idle"
        /\ pc' = [pc EXCEPT ![side] = "closed"]
        /\ UNCHANGED << cfg, adv, chan, apiVars, stream, loc, call, calls, trace >>

NextTransport ==
    \/ ConnectSend
    \/ ConnectRecv
    \/ AcceptRecv
    \/ AcceptSend
    \/ WriteStart
    \/ WriteAttempt
    \/ ReadStart
    \/ ReadHeader
    \/ ReadBody
    \/ DropTransport

\* connect against accept over one stream, then write and read calls
SpecTransport == InitTransport /\ [][NextTransport]_vars

\* The runs of SpecTransport over a stream whose operations do not fail
ReliableConfigs == { [c EXCEPT !.reliable = TRUE] : c \in TransportConfigs }

InitReliable ==
    /\ cfg \in ReliableConfigs
    /\ adv \in BOOLEAN
    /\ chan = Both(None)
    /\ act1 = Both(None)
    /\ act2 = Both(None)
    /\ msgs = [m1 |-> None, m2 |-> None]
    /\ given = Both(None)
    /\ out = Both(<< >>)
    /\ rcvPos = Both(0)
    /\ inOrder = Both(TRUE)
    /\ stray = 0
    /\ last = NoCall
    /\ stream = [c2s |-> << >>, s2c |-> << >>]
    /\ pc = Both("start")
    /\ loc = Both(NoLocals)
    /\ call = Both(NoCallYet)
    /\ calls = 0
    /\ trace = NoTrace

\* connect and accept run in two threads (test_transport_kk): each step of
\* either that can be taken is taken in the end
HandshakeFairness ==
    /\ WF_vars(ConnectSend)
    /\ WF_vars(ConnectRecv)
    /\ WF_vars(AcceptRecv)
    /\ WF_vars(AcceptSend)

\* connect against accept over a reliable stream, then write and read calls
SpecReliable == InitReliable /\ [][NextTransport]_vars /\ HandshakeFairness

\* Plaintexts of the stream runs: the one of test_transport_kk, and two of
\* two bytes, the size of a length prefix, whose bytes read as a length of
\* 18 and as a length of 0
StreamPlaintexts ==
    { Data("Test message", 12), Data("two", LENGTH_PREFIX_SIZE),
      DataBytes("zeroes", << 0, 0 >>) }

\* connect and accept have returned their transports, as in
\* test_transport_kk; from here the client writes and the server reads
InitStream ==
    /\ cfg = TransportRun(EstCfg, {"cli"}, {"srv"}, StreamPlaintexts, MaxStreamCalls)
    /\ adv \in BOOLEAN
    /\ chan = [cli |-> Some(FromHandshake(EstI2.val).val),
               srv |-> Some(FromHandshake(EstR2.val.state).val)]
    /\ act1 = Both(None)
    /\ act2 = Both(None)
    /\ msgs = [m1 |-> None, m2 |-> None]
    /\ given = Both(None)
    /\ out = Both(<< >>)
    /\ rcvPos = Both(0)
    /\ inOrder = Both(TRUE)
    /\ stray = 0
    /\ last = NoCall
    /\ stream = [c2s |-> << >>, s2c |-> << >>]
    /\ pc = Both("idle")
    /\ loc = Both(NoLocals)
    /\ call = [cli |-> Returned("connect", Ok(NoVal)),
               srv |-> Returned("accept", Ok(NoVal))]
    /\ calls = 0
    /\ trace = [NoTrace EXCEPT
                   !.wire = << [by |-> "cli", kind |-> "m1", n |-> KK_MSG_1_SIZE],
                               [by |-> "srv", kind |-> "m2", n |-> KK_MSG_2_SIZE] >>,
                   !.stages = Both(<< "act1", "act2", "chan" >>)]

NextStream ==
    \/ WriteStart
    \/ WriteAttempt
    \/ ReadStart
    \/ ReadHeader
    \/ ReadBody

\* write calls of one side and read calls of the other on two connected
\* transports
SpecStream == InitStream /\ [][NextStream]_vars

\* ============================================================ claims
IsDecrypt == last.op \in {"decrypt_header", "decrypt_message"}

\* C1: on two channels of one completed handshake, as long as a side hands
\* its decrypt calls the peer's pieces in the order produced (header to
\* decrypt_header, then body to decrypt_message, message after message),
\* every such call succeeds and decrypt_message returns exactly the
\* plaintext the peer encrypted, in either direction.
C1_RoundTrip ==
    (IsDecrypt /\ inOrder[last.side]) =>
        /\ last.res.ok
        /\ last.op = "decrypt_message" =>
               last.res.val = out[Peer(last.side)][last.k \div 2].m

\* the second message of the server, of the longest accepted length,
\* decrypted by the client after everything before it
C1_Witness ==
    /\ last.op = "decrypt_message"
    /\ last.side = "cli"
    /\ inOrder.cli
    /\ last.k = 4
    /\ last.res.ok
    /\ DataLen(last.res.val) = 65501

\* C2: the k-th piece a side produced was encrypted under nonce k-1; a
\* decrypt call handed a piece whose nonce is not the receiver's current
\* nonce fails with the engine's error and returns neither plaintext nor
\* length.  In particular, on a receiver that took everything in order so
\* far, any piece but the next one (a body before its header, a piece of a
\* later message) fails.
C2_NonceOrder ==
    (IsDecrypt /\ last.k > 0) =>
        /\ (last.k - 1 # last.pre.recvN) =>
               (~last.res.ok /\ last.res.err = "Noise")
        /\ (last.ord /\ last.k # last.pos + 1) =>
               (~last.res.ok /\ last.res.err = "Noise")

\* the body of message 2 handed over after message 1 was taken in order
C2_Witness ==
    /\ last.op = "decrypt_message"
    /\ last.ord
    /\ last.pos = 2
    /\ last.k = 4
    /\ ~last.res.ok

\* The responder was handed the message the initiator built
RealMsg1Given ==
    given.srv.some /\ msgs.m1.some /\ given.srv.v = msgs.m1.v
RealMsg2Given ==
    given.cli.some /\ msgs.m2.some /\ given.cli.v = msgs.m2.v

\* C3: when the initiator targets the responder's real public key and its
\* own public key is somewhere in the candidate list, the responder's Act
\* One succeeds bound to that key, every later step of the handshake
\* succeeds on both sides, and remote_static is the initiator's key on the
\* responder's channel and the responder's key on the initiator's.
C3_CandidateAnywhere ==
    (cfg.target = PublicKey(cfg.rKey) /\ PublicKey(cfg.iKey) \in Range(cfg.cands)) =>
        /\ (act1.srv.some /\ RealMsg1Given) =>
               (act1.srv.v.ok /\ act1.srv.v.val.rs = PublicKey(cfg.iKey))
        /\ act2.srv.some => act2.srv.v.ok
        /\ (act2.cli.some /\ RealMsg2Given) => act2.cli.v.ok
        /\ last.op = "from_handshake" => last.res.ok
        /\ chan.srv.some => RemoteStatic(chan.srv.v) = PublicKey(cfg.iKey)
        /\ chan.cli.some => RemoteStatic(chan.cli.v) = PublicKey(cfg.rKey)

\* candidates [B, A], initiator A: both channels exist
C3_Witness ==
    /\ cfg.iKey = "A"
    /\ cfg.target = PublicKey(cfg.rKey)
    /\ cfg.cands = << PublicKey("B"), PublicKey("A") >>
    /\ chan.srv.some
    /\ chan.cli.some
    /\ last.op = "remote_static"

\* C4 as stated: a first message built for a key that is not the
\* responder's makes the responder's Act One fail with the engine's
\* (crypto) error.
C4_Original ==
    (cfg.target # PublicKey(cfg.rKey) /\ act1.srv.some /\ RealMsg1Given) =>
        (~act1.srv.v.ok /\ act1.srv.v.err = "Noise")

\* C4 as amended: in that case the responder's Act One fails with
\* MissingStaticKey for every candidate list, and no handshake state, Act
\* Two or channel ever exists on the responder's side.
C4_WrongTarget ==
    cfg.target # PublicKey(cfg.rKey) =>
        /\ (act1.srv.some /\ RealMsg1Given) =>
               (~act1.srv.v.ok /\ act1.srv.v.err = "MissingStaticKey")
        /\ ~act2.srv.some
        /\ ~chan.srv.some

\* wrong target, the initiator's key among the candidates, Act One ran
C4_Witness ==
    /\ cfg.target # PublicKey(cfg.rKey)
    /\ PublicKey(cfg.iKey) \in Range(cfg.cands)
    /\ act1.srv.some
    /\ RealMsg1Given
    /\ ~act1.srv.v.ok

\* The handshake messages in the order connect and accept write them
HandshakeWire ==
    << [by |-> "cli", kind |-> "m1", n |-> KK_MSG_1_SIZE],
       [by |-> "srv", kind |-> "m2", n |-> KK_MSG_2_SIZE] >>
HandshakeStages == << "act1", "act2", "chan" >>
IsPrefix(p, q) == Len(p) <= Len(q) /\ p = SubSeq(q, 1, Len(p))
InFrameCall(side) == pc[side] \in {"w_loop", "r_hdr", "r_body"}
ReadCall(side) == call[side].op = "read"
WriteCall(side) == call[side].op = "write"

\* C5: in a run of connect against accept the handshake messages written
\* are message 1 by the initiator, then message 2 by the responder, and
\* nothing else: message 2 is written only after message 1 was written whole,
\* and the initiator waits for message 2 only after that too.  Each side
\* passes Act One, Act Two and Channel construction in this order, each at
\* most once; a side that holds a transport has passed all three and both
\* messages have been written whole, exactly once each.  write and read run
\* only on a side that holds a transport.
C5_HandshakeOrder ==
    /\ Len(trace.wire) <= 2
    /\ \A i \in 1 .. Len(trace.wire) :
          /\ trace.wire[i].by = HandshakeWire[i].by
          /\ trace.wire[i].kind = HandshakeWire[i].kind
    /\ (Len(trace.wire) = 2 \/ pc.cli = "c_recv") =>
          /\ trace.wire # << >>
          /\ trace.wire[1] = HandshakeWire[1]
    /\ \A side \in Sides :
          /\ IsPrefix(trace.stages[side], HandshakeStages)
          /\ chan[side].some =>
                /\ trace.stages[side] = HandshakeStages
                /\ trace.wire = HandshakeWire
          /\ (InFrameCall(side) \/ trace.wrote[side] # << >> \/ trace.got[side] # << >>
                \/ call[side].op \in {"write", "read"})
               => chan[side].some
    /\ calls > 0 => trace.wire = HandshakeWire

\* Both transports exist, after the two messages and the three stages
C5_Witness ==
    /\ chan.cli.some /\ chan.srv.some
    /\ trace.wire = HandshakeWire
    /\ trace.stages = Both(HandshakeStages)
    /\ calls > 0

\* C6: a read whose attempts have all failed with a transient stream error
\* has made at most 5 attempts and paused at most 4 times.
C6_BoundedRetries ==
    \A side \in Sides :
        (ReadCall(side) /\ call[side].trans = call[side].fails) =>
            /\ call[side].tries <= 5
            /\ call[side].sleeps <= 4

\* A read on its sixth attempt after five transient failures and five pauses
C6_Witness ==
    \E side \in Sides :
        /\ ReadCall(side) /\ ~call[side].done
        /\ call[side].trans = 6 /\ call[side].fails = 6
        /\ call[side].sleeps = 6
        /\ loc[side].attempts = 0

\* C7: a read in which the header or the body failed to decrypt has
\* returned that error, on the attempt in which it happened.
C7_DecryptFailureReturned ==
    \A side \in Sides :
        (ReadCall(side) /\ call[side].firstNoise > 0) =>
            /\ call[side].done
            /\ call[side].tries = call[side].firstNoise
            /\ ~call[side].res.ok
            /\ call[side].res.err.t = "Noise"

\* A read whose first attempt failed to decrypt went on to another attempt
C7_Witness ==
    \E side \in Sides :
        /\ ReadCall(side)
        /\ call[side].firstNoise = 1
        /\ call[side].tries >= 2
        /\ loc[side].attempts >= 1

\* C8: a read one of whose attempts failed with UnexpectedEof or Interrupted
\* has returned, with that error, on that attempt: no attempt follows it,
\* and the pauses are those of the transient failures before it.
C8_FatalReturned ==
    \A side \in Sides :
        (ReadCall(side) /\ call[side].firstFatal > 0) =>
            /\ call[side].done
            /\ pc[side] \in {"idle", "closed"}
            /\ ~call[side].res.ok
            /\ call[side].res.err.t = "Transport"
            /\ call[side].res.err.kind \in FatalKinds
            /\ call[side].res.err.at = call[side].firstFatal
            /\ call[side].tries = call[side].firstFatal
            /\ call[side].sleeps = call[side].trans

\* A read returned UnexpectedEof or Interrupted on a later attempt, after
\* pauses, and one returned it on its first
C8_Witness ==
    \E side \in Sides :
        /\ ReadCall(side) /\ call[side].done
        /\ call[side].firstFatal >= 2
        /\ call[side].res.err.kind = "UnexpectedEof"
        /\ call[side].sleeps >= 1

\* C9: a write under way has failed in every attempt so far, at most 4 of
\* them, and paused after each; a write that returned Ok did so on its
\* first stream write that succeeded, in at most 5 attempts; a write that
\* returned a stream error made exactly 5 attempts, all failed, paused 4
\* times, and the error is the one of the fifth attempt.
C9_WriteRetries ==
    \A side \in Sides :
        WriteCall(side) =>
            /\ call[side].tries <= 5
            /\ call[side].sleeps <= 4
            /\ ~call[side].done =>
                  /\ call[side].fails = call[side].tries
                  /\ call[side].sleeps = call[side].fails
                  /\ call[side].tries <= 4
            /\ (call[side].done /\ call[side].res.ok) =>
                  /\ call[side].tries >= 1
                  /\ call[side].fails = call[side].tries - 1
                  /\ call[side].sleeps = call[side].fails
            /\ (call[side].done /\ ~call[side].res.ok /\ call[side].res.err.t = "Transport") =>
                  /\ call[side].tries = 5
                  /\ call[side].fails = 5
                  /\ call[side].sleeps = 4
                  /\ call[side].res.err = call[side].lastErr
                  /\ call[side].res.err.at = 5

\* A write returned the error of its fifth attempt
C9_Witness ==
    \E side \in Sides :
        /\ WriteCall(side) /\ call[side].done
        /\ ~call[side].res.ok
        /\ call[side].res.err.t = "Transport"
        /\ call[side].tries = 5

\* Lengths decrypt_message rejects by size: below a MAC, above the largest
\* Noise message
RejectedLengths ==
    (0 .. MAC_SIZE - 1) \cup (NOISE_MESSAGE_MAX_SIZE + 1 .. MaxProbeLen)

\* C11: on every channel a transport holds, decrypt_message returns
\* InvalidCiphertext for an input of every length below MAC_SIZE and of
\* every length above 65535; and a read one of whose headers announced a
\* body shorter than a MAC has, once it returned, returned InvalidCiphertext
\* and no plaintext.
C11_InvalidCiphertext ==
    \A side \in Sides :
        /\ chan[side].some =>
              \A n \in RejectedLengths :
                  DecryptMessage(chan[side].v, Whole(Junk(0, n)), adv)
                      = [res |-> Err("InvalidCiphertext"), ch |-> chan[side].v]
        /\ (ReadCall(side) /\ call[side].shortAt > 0 /\ call[side].done) =>
              /\ ~call[side].res.ok
              /\ call[side].res.err.t = "Noise"
              /\ call[side].res.err.kind = "InvalidCiphertext"

\* A read returned the peer's second plaintext in its third attempt; its
\* second attempt took a header announcing a body of 0 bytes and ended
\* with InvalidCiphertext
C11_Witness ==
    /\ call.srv.op = "read" /\ call.srv.done /\ call.srv.res.ok
    /\ call.srv.res.val = Data("Test message", 12)
    /\ call.srv.shortAt = 2
    /\ call.srv.tries = 3
    /\ call.srv.lastErr = At(NoiseErr("InvalidCiphertext"), 2)
    /\ trace.wrote.cli = << DataBytes("zeroes", << 0, 0 >>), Data("Test message", 12) >>
    /\ trace.partial = 0

\* C12: the bytes encrypt_message returns for a plaintext of n bytes are
\* n + 18 + 16 of them, a header of 18 bytes, one ciphertext, followed by a
\* body of n + 16 bytes, one ciphertext; the peer's decrypt_header returns
\* for that header n + 16, the length of that body, a value in 16..65517.
C12_FrameLayout ==
    /\ (last.op = "encrypt_message" /\ last.res.ok) =>
          LET n == DataLen(last.arg)
              header == Take(last.res.val, 18)
              body == Drop(last.res.val, 18)
          IN /\ BLen(last.res.val) = n + 18 + 16
             /\ n = 0 => BLen(last.res.val) = 34
             /\ IsWhole(header) /\ BLen(header) = 18
             /\ IsWhole(body) /\ BLen(body) = n + 16
    /\ (last.op = "decrypt_header" /\ last.ord /\ last.k = last.pos + 1) =>
          LET sent == out[Peer(last.side)][(last.k + 1) \div 2]
          IN /\ last.res.ok
             /\ last.res.val = DataLen(sent.m) + 16
             /\ last.res.val = BLen(Drop(sent.bytes, 18))
             /\ last.res.val \in 16 .. 65517

\* decrypt_header returned 65517 for the header of the longest plaintext
C12_Witness ==
    /\ last.op = "decrypt_header"
    /\ last.res.ok
    /\ last.res.val = 65517
    /\ DataLen(out.srv[1].m) = 65501

\* C13 as stated: the tag is 20 bytes and the first handshake message 68,
\* connect writes 68 bytes and accept reads 68 bytes for it; the second
\* message is 48 bytes.
C13_Original ==
    /\ Len(HANDSHAKE_MESSAGE) = 20
    /\ KK_MSG_1_SIZE = 32 + 20 + 16
    /\ KK_MSG_2_SIZE = 32 + 16
    /\ pc.cli = "c_recv" => trace.wire[1].n = 68

\* C13 as amended: the tag "practical_revault_0" is 19 bytes and the first
\* handshake message KEY_SIZE + 19 + MAC_SIZE = 67 bytes, all of them
\* produced by the engine.  A connect whose write succeeded wrote exactly
\* 67 bytes; an accept whose read succeeded took exactly those 67 bytes and
\* left none.  The second message is 32 + 16 = 48 bytes: an accept that
\* returned wrote exactly 48, a connect that returned took exactly 48.
C13_MessageSizes ==
    /\ Len(HANDSHAKE_MESSAGE) = 19
    /\ KK_MSG_1_SIZE = 32 + 19 + 16
    /\ KK_MSG_1_SIZE = 67
    /\ KK_MSG_2_SIZE = 32 + 16
    /\ BLen(ActOneInitiator(cfg.iKey, cfg.target).val.msg) = 67
    /\ IsWhole(ActOneInitiator(cfg.iKey, cfg.target).val.msg)
    /\ pc.cli = "c_recv" => trace.wire[1].n = 67
    /\ pc.srv = "a_send" => (trace.wire[1].n = 67 /\ stream.c2s = << >>)
    /\ chan.srv.some => (Len(trace.wire) = 2 /\ trace.wire[2].n = 48)
    /\ (chan.cli.some /\ calls = 0) => stream.s2c = << >>

\* Both transports returned after 67 and 48 bytes
C13_Witness ==
    /\ chan.cli.some /\ chan.srv.some
    /\ trace.wire[1].n = 67
    /\ trace.wire[2].n = 48
    /\ calls = 0

\* C14: a buffer of the size of the first message filled with zeroes or
\* with ones makes KKHandshakeActOne::responder return an error, and one of
\* the size of the second message makes KKHandshakeActTwo::initiator
\* return an error; the side that was handed it gets no handshake state
\* from the call and never holds a Channel.
C14_BadMessages ==
    /\ (given.srv.some /\ given.srv.v \in BadMsg1 /\ act1.srv.some) =>
          /\ ~act1.srv.v.ok
          /\ ~act2.srv.some
          /\ ~chan.srv.some
    /\ (given.cli.some /\ given.cli.v \in BadMsg2 /\ act2.cli.some) =>
          /\ ~act2.cli.v.ok
          /\ ~chan.cli.some

\* The responder was handed ones as first message, the initiator zeroes as
\* second, and both calls returned
C14_Witness ==
    /\ given.srv.some /\ given.srv.v = Whole(Junk(1, KK_MSG_1_SIZE))
    /\ act1.srv.some /\ ~act1.srv.v.ok
    /\ given.cli.some /\ given.cli.v = Whole(Junk(0, KK_MSG_2_SIZE))
    /\ act2.cli.some /\ ~act2.cli.v.ok

\* C15: the plaintexts the reads of a side have returned are, in order, the
\* first of the plaintexts the writes of its peer were given.
C15_ReturnedIsWritten ==
    \A side \in Sides :
        IsPrefix(trace.got[side], trace.wrote[Peer(side)])

\* A read returned a plaintext of two bytes that is the length prefix of
\* the peer's second message, though the peer wrote no such plaintext
C15_Witness ==
    /\ Len(trace.wrote.cli) = 2
    /\ Len(trace.got.srv) = 1
    /\ trace.got.srv[1] = Prefix(DataLen(trace.wrote.cli[2]) + MAC_SIZE)
    /\ trace.got.srv[1] \notin Range(trace.wrote.cli)

\* The scan C16 describes: the first candidate under which the engine opens
\* the message decides
OpeningCandidates(my_privkey, cands, message) ==
    {i \in 1 .. Len(cands) : EngineReadMsg1(my_privkey, cands[i], message).ok}
ReferenceScan(my_privkey, cands, message) ==
    LET opens == OpeningCandidates(my_privkey, cands, message)
    IN IF opens = {} THEN Err("MissingStaticKey")
       ELSE LET first == CHOOSE i \in opens : \A j \in opens : i <= j
            IN IF EngineReadMsg1(my_privkey, cands[first], message).val = HANDSHAKE_MESSAGE
               THEN Ok(HandshakeState("responder", my_privkey, cands[first],
                                      message[1].c, None))
               ELSE Err("BadHandshake")

\* C16: what KKHandshakeActOne::responder returns is what the reference
\* scan gives for the same key, candidate list and message: Ok bound to the
\* first candidate that opens the message when the payload is the tag,
\* BadHandshake when it is not, MissingStaticKey when no candidate opens it
\* or the list is empty.
C16_ReferenceScan ==
    last.op = "act_one_responder" =>
        last.res = ReferenceScan(cfg.rKey, cfg.cands, given.srv.v)

\* The first candidate was skipped, the second opened a message carrying
\* another tag: BadHandshake
C16_Witness ==
    /\ last.op = "act_one_responder"
    /\ Len(cfg.cands) = 2
    /\ cfg.cands[1] # PublicKey(cfg.iKey)
    /\ cfg.cands[2] = PublicKey(cfg.iKey)
    /\ last.res = Err("BadHandshake")

\* The nonce the i-th piece of a side's output was encrypted under
NonceOfPiece(side, k) == PieceOf(side, k)[1].c.nonce

\* What the last call did to the counters, and the nonces of all pieces
\* produced so far
C17_Counted ==
    /\ (last.op = "encrypt_message" /\ last.res.ok) =>
          LET post == chan[last.side].v
              n == Len(out[last.side])
          IN /\ post.sendN = last.pre.sendN + 2
             /\ post.recvN = last.pre.recvN
             /\ NonceOfPiece(last.side, 2 * n - 1) = last.pre.sendN
             /\ NonceOfPiece(last.side, 2 * n) = last.pre.sendN + 1
    /\ (IsDecrypt /\ last.res.ok) =>
          LET post == chan[last.side].v
          IN /\ post.recvN = last.pre.recvN + 1
             /\ post.sendN = last.pre.sendN
    /\ \A side \in Sides :
          /\ chan[side].v.sendN = 2 * Len(out[side])
          /\ \A k \in Pieces(side) : NonceOfPiece(side, k) = k - 1

\* What one call may do: no counter goes down, and a call moves one counter
\* of one channel at most
C17_Moved ==
    \A side \in Sides :
        LET pre == chan[side].v
            post == chan'[side].v
        IN /\ post.sendN >= pre.sendN
           /\ post.recvN >= pre.recvN
           /\ post.sendN # pre.sendN =>
                 (post.recvN = pre.recvN /\ chan'[Peer(side)] = chan[Peer(side)])
           /\ post.recvN # pre.recvN =>
                 (post.sendN = pre.sendN /\ chan'[Peer(side)] = chan[Peer(side)])

\* C17: a successful encrypt_message moves the sending counter of its
\* channel by 2, the header taking the nonce it stood at and the body the
\* next; a successful decrypt_header or decrypt_message moves the receiving
\* counter by 1; the k-th piece a side produced carries nonce k - 1, so no
\* nonce encrypts twice; no counter goes down, and no call moves a counter
\* of the other direction or of the other channel.
C17_NonceCounters == [](C17_Counted) /\ [][C17_Moved]_vars

\* The second body of a side was decrypted by its peer: counters at 4
C17_Witness ==
    /\ last.op = "decrypt_message"
    /\ last.res.ok
    /\ last.pre.recvN = 3
    /\ chan[last.side].v.recvN = 4
    /\ chan[Peer(last.side)].v.sendN = 4
    /\ chan[last.side].v.sendN = 0

\* The unread bytes begin with byte 0 of a header encrypted under the
\* nonce the side's channel expects next; headers are the pieces under the
\* even nonces (C17)
AtFrameBoundary(side) ==
    LET unread == stream[In(side)]
    IN unread # << >> =>
          /\ unread[1].off = 0
          /\ unread[1].c.kind = "ct"
          /\ unread[1].c.nonce % 2 = 0
          /\ unread[1].c.nonce = chan[side].v.recvN

\* C18: when read starts another attempt after a failed one, the failed
\* attempt had taken no bytes from the stream, and the unread bytes begin
\* with a header under the nonce the channel expects.
C18_RetryAtBoundary ==
    \A side \in Sides :
        (ReadCall(side) /\ pc[side] = "r_hdr" /\ call[side].fails > 0) =>
            /\ ~call[side].moved
            /\ AtFrameBoundary(side)

\* read starts its second attempt after a stream error in the body read:
\* the header is gone, the body unread, the channel expects a body
C18_Witness ==
    \E side \in Sides :
        /\ ReadCall(side) /\ pc[side] = "r_hdr"
        /\ call[side].tries = 1 /\ call[side].fails = 1
        /\ call[side].lastErr.t = "Transport"
        /\ call[side].moved
        /\ trace.partial = 0
        /\ chan[side].v.recvN = 1
        /\ stream[In(side)] # << >>
        /\ stream[In(side)][1].c.nonce = 1
        /\ stream[In(side)][1].off = 0

\* C19: write starts another write_all only when the failed one put no
\* byte on the stream, so a write call never puts more bytes on the stream
\* than its ciphertext has, and a successful one puts exactly those.
C19_WrittenOnce ==
    \A side \in Sides :
        WriteCall(side) =>
            /\ (pc[side] = "w_loop" /\ call[side].fails > 0) => call[side].put = 0
            /\ call[side].put <= call[side].size
            /\ (call[side].done /\ call[side].res.ok) =>
                   call[side].put = call[side].size

\* write returned Ok after one failed write_all that had put part of the
\* ciphertext on the stream: the stream has the part and then the whole
C19_Witness ==
    \E side \in Sides :
        /\ WriteCall(side) /\ call[side].done /\ call[side].res.ok
        /\ call[side].tries = 2 /\ call[side].fails = 1
        /\ call[side].put > call[side].size
        /\ BLen(stream[Dir(side)]) = call[side].put

\* The record of a write that encrypt_message refused
RejectedWrite == Returned("write", Err(NoiseErr("InvalidPlaintext")))

\* The peer of side has taken everything side encrypted
InStep(side) ==
    /\ chan[side].some /\ chan[Peer(side)].some
    /\ chan[side].v.sendKey = chan[Peer(side)].v.recvKey
    /\ chan[side].v.sendN = chan[Peer(side)].v.recvN
    /\ stream[Dir(side)] = << >>

\* message encrypted by side and its two pieces decrypted by the peer, on
\* the channels they hold now: the plaintext comes back
RoundTrips(side, message) ==
    LET e == EncryptMessage(chan[side].v, message)
        h == DecryptHeader(chan[Peer(side)].v,
                           Take(e.res.val, NOISE_MESSAGE_HEADER_SIZE), adv)
        b == DecryptMessage(h.ch, Drop(e.res.val, NOISE_MESSAGE_HEADER_SIZE), adv)
    IN /\ e.res.ok /\ h.res.ok
       /\ h.res.val = BLen(e.res.val) - NOISE_MESSAGE_HEADER_SIZE
       /\ b.res = Ok(message)

\* A write refused for its size: no byte written, no attempt made, the
\* channels as they were, and a plaintext of accepted size still goes through
C20_AfterRejection ==
    \A side \in Sides :
        (call[side].op = "write" /\ call[side].done /\ ~call[side].res.ok
            /\ call[side].res.err = NoiseErr("InvalidPlaintext")) =>
            /\ call[side] = RejectedWrite
            /\ pc[side] \in {"idle", "closed"}
            /\ InStep(side) =>
                   \A m \in {x \in cfg.texts : DataLen(x) <= NOISE_PLAINTEXT_MAX_SIZE} :
                       RoundTrips(side, m)

\* The step in which write returns InvalidPlaintext changes neither channel
\* nor stream; the step in which decrypt_message refuses a body in read
\* leaves the nonces of the reader's channel as they were
C20_Step ==
    \A side \in Sides :
        /\ (calls' = calls + 1 /\ call'[side] # call[side]
              /\ call'[side] = RejectedWrite) =>
              /\ chan' = chan
              /\ stream' = stream
              /\ pc'[side] = "idle"
        /\ (pc[side] = "r_body" /\ pc'[side] # "r_body"
              /\ call'[side].lastErr =
                     At(NoiseErr("InvalidCiphertext"), call'[side].tries)
              /\ call'[side].fails = call[side].fails + 1) =>
              /\ chan'[side] = chan[side]
              /\ chan'[Peer(side)] = chan[Peer(side)]

\* C20: a request refused by a size check changes nothing.  encrypt_message
\* returning InvalidPlaintext leaves the channel, so the sending nonce, as
\* it was; decrypt_message returning InvalidCiphertext leaves the receiving
\* nonce as it was; write of an over-long plaintext writes no byte and makes
\* no attempt on the stream; and a plaintext of accepted size written right
\* after the rejection is read back by the peer.
C20_RejectionChangesNothing == [](C20_AfterRejection) /\ [][C20_Step]_vars

\* The client's first call is write of a plaintext one byte too long: it
\* returned InvalidPlaintext with the channels of both sides in step
C20_Witness ==
    /\ call.cli = RejectedWrite
    /\ InStep("cli")
    /\ calls = 1
    /\ chan.cli.v.sendN = 0
    /\ RoundTrips("cli", Data("Test message", 12))

\* The plaintext of the last write of side that encrypt_message accepted
LastWritten(side) == trace.wrote[side][Len(trace.wrote[side])]

\* The ciphertext write made at its entry: LastWritten under the two nonces
\* before the current sending nonce
FirstCiphertext(side) ==
    EncryptMessage([chan[side].v EXCEPT !.sendN = @ - 2], LastWritten(side)).res.val

\* A side's sending nonce is twice the number of its write calls with an
\* accepted plaintext, at every point of every call and after it, whatever
\* the call returned; inside the loop the buffer is the first ciphertext
C21_Counted ==
    \A side \in Sides :
        /\ chan[side].some =>
               chan[side].v.sendN = 2 * Len(trace.wrote[side])
        /\ pc[side] = "w_loop" =>
               /\ loc[side].enc = FirstCiphertext(side)
               /\ call[side].size = BLen(loc[side].enc)

\* A turn of the write loop leaves the channel alone and appends to the
\* stream bytes from the start of the first ciphertext, nothing else
C21_Turn ==
    \A side \in Sides :
        (pc[side] = "w_loop" /\ call'[side] # call[side]) =>
            /\ chan' = chan
            /\ stream'[Dir(side)] =
                   Concat(stream[Dir(side)],
                          Take(FirstCiphertext(side), call'[side].put - call[side].put))
            /\ pc'[side] = "w_loop" => loc'[side].enc = loc[side].enc

\* C21: a write call with an accepted plaintext encrypts once.  The sending
\* nonce is 2 higher than before the call from the moment the loop is
\* entered until after the return, with any number of retries and with Ok
\* or an error as the result; every write_all of the call is handed the
\* same bytes, the ciphertext made at entry.
C21_EncryptsOnce == [](C21_Counted) /\ [][C21_Turn]_vars

\* A first write call returned the stream's error after five write_all on
\* the same ciphertext, one of which put its header on the stream; the
\* sending nonce is 2
C21_Witness ==
    \E side \in Sides :
        /\ WriteCall(side) /\ call[side].done /\ ~call[side].res.ok
        /\ call[side].res.err.t = "Transport"
        /\ call[side].tries = 5
        /\ call[side].put = NOISE_MESSAGE_HEADER_SIZE
        /\ Len(trace.wrote[side]) = 1
        /\ chan[side].v.sendN = 2

\* The initiator targets the responder's real key and is among the
\* responder's candidates
GoodKeys ==
    /\ cfg.target = PublicKey(cfg.rKey)
    /\ PublicKey(cfg.iKey) \in Range(cfg.cands)

\* connect, accept returned Ok: the side holds its transport
ConnectOk == chan.cli.some
AcceptOk == chan.srv.some

\* accept returned the error of Act One
AcceptFailedInActOne ==
    /\ pc.srv = "failed"
    /\ call.srv.op = "accept" /\ call.srv.done /\ ~call.srv.res.ok
    /\ call.srv.res.err.t = "Noise"
    /\ trace.stages.srv = << >>

\* The order of the two handshake steps on either side, and what a failure
\* of accept in Act One leaves behind
C22_Order ==
    /\ pc.cli # "start" => "act1" \in Range(trace.stages.cli)
    /\ (pc.cli = "c_recv" \/ ConnectOk) =>
           /\ trace.wire # << >>
           /\ trace.wire[1] = [by |-> "cli", kind |-> "m1", n |-> KK_MSG_1_SIZE]
    /\ \A i \in 1..Len(trace.wire) :
           trace.wire[i].by = "srv" =>
               /\ i = 2
               /\ trace.wire[1] = [by |-> "cli", kind |-> "m1", n |-> KK_MSG_1_SIZE]
               /\ "act1" \in Range(trace.stages.srv)
    /\ AcceptFailedInActOne =>
           /\ \A i \in 1..Len(trace.wire) : trace.wire[i].by # "srv"
           /\ stream.s2c = << >>
           /\ ~ConnectOk
    /\ ~GoodKeys => ~ConnectOk /\ ~AcceptOk

\* C22: over a reliable stream, with the initiator targeting the
\* responder's real key and being among the responder's candidates, connect
\* and accept started together both return Ok in the end: connect writes
\* message 1 before it reads, accept reads message 1 before it writes
\* message 2, so neither waits for the other for ever.  When accept
\* fails in Act One the server has written no byte and connect does not
\* return Ok at any time.
C22_NoDeadlock ==
    /\ [](C22_Order)
    /\ GoodKeys ~> (ConnectOk /\ AcceptOk)

\* Both sides hold a transport after the four handshake steps: message 1
\* and message 2 went over the stream whole, once each
C22_Witness ==
    /\ GoodKeys /\ cfg.reliable
    /\ ConnectOk /\ AcceptOk
    /\ calls = 0
    /\ trace.wire = << [by |-> "cli", kind |-> "m1", n |-> KK_MSG_1_SIZE],
                       [by |-> "srv", kind |-> "m2", n |-> KK_MSG_2_SIZE] >>

\* C10: encrypt_message succeeds for every plaintext of 0..65501 bytes and
\* fails with InvalidPlaintext for every longer one.
C10_SizeLimit ==
    last.op = "encrypt_message" =>
        IF DataLen(last.arg) <= 65501
        THEN last.res.ok
        ELSE ~last.res.ok /\ last.res.err = "InvalidPlaintext"

\* the longest accepted plaintext was encrypted
C10_Witness ==
    /\ last.op = "encrypt_message"
    /\ DataLen(last.arg) = 65501
    /\ last.res.ok
    /\ BLen(last.res.val) = 65535

====
